---- MODULE Spec2Model ----
(***************************************************************************)
(* A model of the SAT encoding engine of TS.py (class SentenceTranslator)  *)
(* and of its driver ts_demo.py.                                           *)
(*                                                                         *)
(* Python values are modelled as follows.                                  *)
(*   None / a value x     : <<>> / <<x>>  (for alphabet, k, __size,        *)
(*                          __number, which start as None)                 *)
(*   a list               : a sequence; Python index i is element i+1      *)
(*   a dict               : id_table is a function; each occurrence table  *)
(*                          is the sequence of its <<key, count>> items in *)
(*                          insertion order (the order .items() iterates)  *)
(*   a z3 expression      : a tagged tuple                                 *)
(*        BoolVal(b)      : <<"const", b>>                                 *)
(*        Bool("A_i")     : <<"var", i>>                                   *)
(*        Not(f)          : <<"not", f>>                                   *)
(*        And(list)       : <<"and", list>>     Or(list) : <<"or", list>>  *)
(*        Implies(f, g)   : <<"implies", f, g>>                            *)
(*   a raised exception   : <<"raise", name>>                              *)
(*   a returned value     : <<"None">>, <<"int", n>>,                      *)
(*                          <<"tuple", a, b, c, d>>, or a z3 expression    *)
(***************************************************************************)
EXTENDS Integers, Sequences, FiniteSets

\* ------------------------------------------------------------------ bounds

\* Largest alphabet size that global_init is called with.
MaxS == 2
\* Largest k that global_init is called with (k ranges over 0..MaxK).
MaxK == 2
\* Longest sample string.
MaxLen == 4
\* Most samples aggregated in one run.
MaxSamples == 2
\* Most calls of global_init in one run.
MaxInits == 1

Letters == <<"a", "b", "c", "d", "e">>
Alphabets == {SubSeq(Letters, 1, n) : n \in 0..MaxS}
Ks == 0..MaxK

VARIABLES
  alphabet,      \* cls.alphabet
  k,             \* cls.k
  var_list,      \* cls.var_list
  id_table,      \* cls.id_table
  number,        \* cls.__number
  size,          \* cls.__size
  src_to_alphabet1_table,
  alphabet1_to_alphabet_table,
  alphabet_to_alphabet_table,
  alphabet_to_snk_table,
  alphabet1_to_alphabet_imply_table,
  alphabet_to_alphabet_imply_table,
  alphabet_to_snk_imply_table,
  inits,         \* how many times global_init has been called
  sen_pos,       \* the samples aggregated so far, in order
  call,          \* the last operation called, with its arguments
  ret            \* what it returned

config == <<alphabet, k, var_list, id_table, number, size>>
tables == <<src_to_alphabet1_table, alphabet1_to_alphabet_table,
            alphabet_to_alphabet_table, alphabet_to_snk_table,
            alphabet1_to_alphabet_imply_table, alphabet_to_alphabet_imply_table,
            alphabet_to_snk_imply_table>>
vars == <<config, tables, inits, sen_pos, call, ret>>

\* ------------------------------------------------------------ Python values

None == <<>>
NoReturn == <<"None">>
Raise(name) == <<"raise", name>>
IndexError == Raise("IndexError")

Range(s) == {s[i] : i \in 1..Len(s)}

\* list[i] with Python's rules: negative indices count from the end, and an
\* index outside the list raises IndexError.
ListGet(list, i) ==
  IF 0 <= i /\ i < Len(list) THEN list[i + 1]
  ELSE IF i < 0 /\ -Len(list) <= i THEN list[Len(list) + i + 1]
  ELSE IndexError

\* Below, CHOOSE r \in {F(v) : v \in {x}} : TRUE is F(x) with x evaluated once.

\* The concatenation of the lists of a list.
RECURSIVE FlattenFrom(_, _)
FlattenFrom(ss, i) == IF i > Len(ss) THEN <<>> ELSE ss[i] \o FlattenFrom(ss, i + 1)
Flatten(ss) == LET F(v) == FlattenFrom(v, 1) IN CHOOSE r \in {F(v) : v \in {ss}} : TRUE

\* ------------------------------------------------------------ z3 expressions

BoolVal(b) == <<"const", b>>
Bool(i) == <<"var", i>>
Not(f) == <<"not", f>>
And(list) == <<"and", list>>
Or(list) == <<"or", list>>
Implies(f, g) == <<"implies", f, g>>

\* The truth value of an expression under the assignment that makes exactly
\* the variables A_i, i \in m, true.
RECURSIVE Eval(_, _)
Eval(f, m) ==
  CASE f[1] = "const" -> f[2]
    [] f[1] = "var" -> f[2] \in m
    [] f[1] = "not" -> ~Eval(f[2], m)
    [] f[1] = "and" -> \A i \in 1..Len(f[2]) : Eval(f[2][i], m)
    [] f[1] = "or" -> \E i \in 1..Len(f[2]) : Eval(f[2][i], m)
    [] f[1] = "implies" -> (Eval(f[2], m) => Eval(f[3], m))

\* The variables an expression mentions.
RECURSIVE Vars(_)
Vars(f) ==
  CASE f[1] = "const" -> {}
    [] f[1] = "var" -> {f[2]}
    [] f[1] = "not" -> Vars(f[2])
    [] f[1] \in {"and", "or"} -> UNION {Vars(f[2][i]) : i \in 1..Len(f[2])}
    [] f[1] = "implies" -> Vars(f[2]) \cup Vars(f[3])
    [] OTHER -> {}

\* Whether building the expression raised (an element of var_list that does
\* not exist was read).
RECURSIVE Raised(_)
Raised(f) ==
  CASE f[1] = "raise" -> TRUE
    [] f[1] = "not" -> Raised(f[2])
    [] f[1] \in {"and", "or"} -> \E i \in 1..Len(f[2]) : Raised(f[2][i])
    [] f[1] = "implies" -> Raised(f[2]) \/ Raised(f[3])
    [] OTHER -> FALSE

\* What a formula-building call returns: the expression, or the exception.
Returned(f) == LET F(v) == IF Raised(v) THEN IndexError ELSE v IN CHOOSE r \in {F(v) : v \in {f}} : TRUE

\* ------------------------------------------------------- the configuration

\* get_size(): len(alphabet), cached in __size by the first call.
get_size == IF size = None THEN Len(alphabet[1]) ELSE size[1]

\* get_number(): k * get_size() + 1, cached in __number by the first call.
get_number == IF number = None THEN k[1] * get_size + 1 ELSE number[1]

\* gen_id_table(): the id_table after it has run for alphabet a, with
\* get_size() = sz. Later assignments overwrite earlier ones.
gen_id_table(a, sz) ==
  LET keys == DOMAIN id_table \cup {"src", "snk"} \cup Range(a)
  IN [x \in keys |->
        IF x \in Range(a) THEN CHOOSE i \in 1..Len(a) : a[i] = x
        ELSE IF x = "snk" THEN sz + 1
        ELSE IF x = "src" THEN 0
        ELSE id_table[x]]

\* gen_var_list(): var_list with [True, A_1, ..., A_(n*n), False] appended,
\* n = get_number().
gen_var_list(n) ==
  var_list \o <<BoolVal(TRUE)>> \o [i \in 1..(n * n) |-> Bool(i)] \o <<BoolVal(FALSE)>>

\* Faulty variant of QuadrupleToIdx: the symbol->snk branch lacks the + 1, so
\* the snk edge of a row lands on the snk edge of the row before it.
QuadrupleToIdx_SnkRowOff(sz, kk, n, id1, k1, id2, k2) ==
  IF id1 = 0 /\ id2 = sz + 1 THEN n
  ELSE IF id1 = 0 THEN (id2 - 1) * kk + k2
  ELSE IF id2 = sz + 1 THEN ((id1 - 1) * kk + k1) * n
  ELSE ((id1 - 1) * kk + k1) * n + (id2 - 1) * kk + k2

\* Faulty variant of QuadrupleToIdx: the src->snk case is not told apart from
\* the src->symbol case.
QuadrupleToIdx_NoSrcSnk(sz, kk, n, id1, k1, id2, k2) ==
  IF id1 = 0 THEN (id2 - 1) * kk + k2
  ELSE IF id2 = sz + 1 THEN ((id1 - 1) * kk + k1 + 1) * n
  ELSE ((id1 - 1) * kk + k1) * n + (id2 - 1) * kk + k2

\* The arithmetic of _quadruple_to_idx with what it reads from the class
\* (sz = get_size(), kk = k, n = get_number()) as parameters.
QuadrupleToIdx(sz, kk, n, id1, k1, id2, k2) ==
  IF id1 = 0 /\ id2 = sz + 1 THEN n
  ELSE IF id1 = 0 THEN (id2 - 1) * kk + k2
  ELSE IF id2 = sz + 1 THEN ((id1 - 1) * kk + k1 + 1) * n
  ELSE ((id1 - 1) * kk + k1) * n + (id2 - 1) * kk + k2

\* _quadruple_to_idx(id1, k1, id2, k2): the index in var_list of the edge
\* (id1, k1) -> (id2, k2).
_quadruple_to_idx(id1, k1, id2, k2) ==
  QuadrupleToIdx(get_size, k[1], get_number, id1, k1, id2, k2)

\* Faulty variant of _idx_to_quadruple: row and column are not shifted by one
\* before they are split into id and slot.
_idx_to_quadruple_NoShift(idx) ==
  IF k[1] = 0 THEN Raise("ZeroDivisionError")
  ELSE LET row == idx \div get_number
           col == idx % get_number
       IN <<"tuple", (row \div k[1]) + 1, (row % k[1]) + 1,
                     (col \div k[1]) + 1, (col % k[1]) + 1>>

\* _idx_to_quadruple(idx): divmod by get_number(), then divmod of row-1 and
\* col-1 by k. Python's divmod floors, as \div and % do; a zero divisor raises
\* ZeroDivisionError.
_idx_to_quadruple(idx) ==
  IF k[1] = 0 THEN Raise("ZeroDivisionError")
  ELSE LET row == idx \div get_number
           col == idx % get_number
       IN <<"tuple", ((row - 1) \div k[1]) + 1, ((row - 1) % k[1]) + 1,
                     ((col - 1) \div k[1]) + 1, ((col - 1) % k[1]) + 1>>

\* var_list[idx]
Var(idx) == ListGet(var_list, idx)

\* ------------------------------------------------------ formula building

\* _get_and_formula(idx_list, ext)
_get_and_formula(idx_list, ext) ==
  IF Len(idx_list) = 0 THEN Var(0)
  ELSE And([i \in 1..Len(idx_list) |->
              IF ext THEN Var(idx_list[i]) ELSE Not(Var(idx_list[i]))])

\* _get_or_formula(idx_list, ext)
_get_or_formula(idx_list, ext) ==
  IF Len(idx_list) = 0 THEN Var(0)
  ELSE Or([i \in 1..Len(idx_list) |->
             IF ext THEN Var(idx_list[i]) ELSE Not(Var(idx_list[i]))])

\* _get_alphabet_to_alphabet_list(id1, id2, ext)
_get_alphabet_to_alphabet_list(id1, id2, ext) ==
  IF ext THEN [k2 \in 1..k[1] |-> _quadruple_to_idx(id1, 1, id2, k2)]
  ELSE IF id1 = 0 THEN <<_quadruple_to_idx(0, 0, id2, 1)>>
  ELSE IF id2 = get_size + 1
    THEN [k1 \in 1..k[1] |-> _quadruple_to_idx(id1, k1, id2, 0)]
  ELSE Flatten([k1 \in 1..k[1] |->
                  [k2 \in 1..k[1] |-> _quadruple_to_idx(id1, k1, id2, k2)]])

\* Faulty variant of _get_alphabet_to_alphabet_imply_list: the snk case takes
\* every slot k1 of id1 whatever the sink id is.
_get_alphabet_to_alphabet_imply_list_AnySlot(id1, id2, id3, ext) ==
  IF ext
    THEN [k2 \in 1..k[1] |->
            << <<_quadruple_to_idx(id1, 1, id2, k2)>>,
               [k3 \in 1..k[1] |-> _quadruple_to_idx(id2, k2, id3, k3)] >>]
  ELSE IF id3 = get_size + 1
    THEN [k2 \in 1..k[1] |->
            << [k1 \in 1..k[1] |-> _quadruple_to_idx(id1, k1, id2, k2)],
               <<_quadruple_to_idx(id2, k2, id3, 0)>> >>]
  ELSE [k2 \in 1..k[1] |->
          << [k1 \in 1..k[1] |-> _quadruple_to_idx(id1, k1, id2, k2)],
             [k3 \in 1..k[1] |-> _quadruple_to_idx(id2, k2, id3, k3)] >>]

\* _get_alphabet_to_alphabet_imply_list(id1, id2, id3, ext): a list of
\* <<pre, post>> pairs of index lists, one pair per middle slot k2.
_get_alphabet_to_alphabet_imply_list(id1, id2, id3, ext) ==
  IF ext
    THEN [k2 \in 1..k[1] |->
            << <<_quadruple_to_idx(id1, 1, id2, k2)>>,
               [k3 \in 1..k[1] |-> _quadruple_to_idx(id2, k2, id3, k3)] >>]
  ELSE IF id3 = get_size + 1
    THEN [k2 \in 1..k[1] |->
            << IF id3 = 3
                 THEN <<_quadruple_to_idx(id1, 1, id2, k2)>>
                 ELSE [k1 \in 1..k[1] |-> _quadruple_to_idx(id1, k1, id2, k2)],
               <<_quadruple_to_idx(id2, k2, id3, 0)>> >>]
  ELSE [k2 \in 1..k[1] |->
          << [k1 \in 1..k[1] |-> _quadruple_to_idx(id1, k1, id2, k2)],
             [k3 \in 1..k[1] |-> _quadruple_to_idx(id2, k2, id3, k3)] >>]

\* Implies(_get_or_formula(pre), _get_or_formula(post)) for each pair of a
\* list of <<pre, post>> pairs.
ImplyFormulas(pre_post_list) ==
  [i \in 1..Len(pre_post_list) |->
     Implies(_get_or_formula(pre_post_list[i][1], TRUE),
             _get_or_formula(pre_post_list[i][2], TRUE))]

\* Faulty variant of gen_deterministic_formula: the "one and only" disjunct
\* for slot m negates every slot, m included (the filter k2 != m is missing).
gen_deterministic_formula_NoFilter ==
  IF k[1] = 1 THEN Var(0)
  ELSE
    LET a == alphabet[1]
        \* src -> alphabet
        part_1 == [c \in 1..Len(a) |->
          LET id2 == id_table[a[c]]
              var_idx == _quadruple_to_idx(0, 0, id2, 1)
              neg_idx_list == [k2 \in 1..k[1] |-> _quadruple_to_idx(0, 0, id2, k2)]
          IN Or(<<Var(var_idx), _get_and_formula(neg_idx_list, FALSE)>>)]
        \* alphabet -> alphabet, for ch1, ch2 and slot k1 of ch1
        clause(c1, c2, k1) ==
          LET id1 == id_table[a[c1]]
              id2 == id_table[a[c2]]
              \* ch1 -> ch2: one and only
              one(m) ==
                LET pos_idx == _quadruple_to_idx(id1, k1, id2, m)
                    neg_idx_list == [j \in 1..k[1] |-> _quadruple_to_idx(id1, k1, id2, j)]
                IN And(<<Var(pos_idx), _get_and_formula(neg_idx_list, FALSE)>>)
              \* ch1 -> ch2: none
              all_idx_list == [k2 \in 1..k[1] |-> _quadruple_to_idx(id1, k1, id2, k2)]
          IN Or([m \in 1..k[1] |-> one(m)] \o <<_get_and_formula(all_idx_list, FALSE)>>)
        part_2 == Flatten([c1 \in 1..Len(a) |-> Flatten([c2 \in 1..Len(a) |->
                     [k1 \in 1..k[1] |-> clause(c1, c2, k1)]])])
    IN And(part_1 \o part_2)

\* gen_deterministic_formula(): the expression it builds.
gen_deterministic_formula ==
  IF k[1] = 1 THEN Var(0)
  ELSE
    LET a == alphabet[1]
        \* src -> alphabet
        part_1 == [c \in 1..Len(a) |->
          LET id2 == id_table[a[c]]
              var_idx == _quadruple_to_idx(0, 0, id2, 1)
              neg_idx_list == [k2 \in 1..k[1] |-> _quadruple_to_idx(0, 0, id2, k2)]
          IN Or(<<Var(var_idx), _get_and_formula(neg_idx_list, FALSE)>>)]
        \* alphabet -> alphabet, for ch1, ch2 and slot k1 of ch1
        clause(c1, c2, k1) ==
          LET id1 == id_table[a[c1]]
              id2 == id_table[a[c2]]
              \* ch1 -> ch2: one and only
              one(m) ==
                LET pos_idx == _quadruple_to_idx(id1, k1, id2, m)
                    neg_idx_list == [j \in 1..(k[1] - 1) |->
                      _quadruple_to_idx(id1, k1, id2, IF j < m THEN j ELSE j + 1)]
                IN And(<<Var(pos_idx), _get_and_formula(neg_idx_list, FALSE)>>)
              \* ch1 -> ch2: none
              all_idx_list == [k2 \in 1..k[1] |-> _quadruple_to_idx(id1, k1, id2, k2)]
          IN Or([m \in 1..k[1] |-> one(m)] \o <<_get_and_formula(all_idx_list, FALSE)>>)
        part_2 == Flatten([c1 \in 1..Len(a) |-> Flatten([c2 \in 1..Len(a) |->
                     [k1 \in 1..k[1] |-> clause(c1, c2, k1)]])])
    IN And(part_1 \o part_2)

\* The entries of an occurrence table with value > 0.
Observed(table) == SelectSeq(table, LAMBDA e : e[2] > 0)

\* Faulty variant of _generate_global_constraint_a: the alphabet->snk
\* conjuncts are left out.
_generate_global_constraint_a_NoSnk ==
  LET t1 == Observed(src_to_alphabet1_table)
      t2 == Observed(alphabet1_to_alphabet_table)
      t3 == Observed(alphabet_to_alphabet_table)
      part_1 == Flatten([i \in 1..Len(t1) |->
                  _get_alphabet_to_alphabet_list(0, t1[i][1], FALSE)])
      part_2 == [i \in 1..Len(t2) |-> _get_or_formula(
                  _get_alphabet_to_alphabet_list(t2[i][1][1], t2[i][1][2], TRUE), TRUE)]
      part_3 == [i \in 1..Len(t3) |-> _get_or_formula(
                  _get_alphabet_to_alphabet_list(t3[i][1][1], t3[i][1][2], FALSE), TRUE)]
  IN <<_get_and_formula(part_1, TRUE)>> \o part_2 \o part_3

\* _generate_global_constraint_a(): the list of Part A conjuncts.
_generate_global_constraint_a ==
  LET t1 == Observed(src_to_alphabet1_table)
      t2 == Observed(alphabet1_to_alphabet_table)
      t3 == Observed(alphabet_to_alphabet_table)
      t4 == Observed(alphabet_to_snk_table)
      part_1 == Flatten([i \in 1..Len(t1) |->
                  _get_alphabet_to_alphabet_list(0, t1[i][1], FALSE)])
      part_2 == [i \in 1..Len(t2) |-> _get_or_formula(
                  _get_alphabet_to_alphabet_list(t2[i][1][1], t2[i][1][2], TRUE), TRUE)]
      part_3 == [i \in 1..Len(t3) |-> _get_or_formula(
                  _get_alphabet_to_alphabet_list(t3[i][1][1], t3[i][1][2], FALSE), TRUE)]
      part_4 == [i \in 1..Len(t4) |-> _get_or_formula(
                  _get_alphabet_to_alphabet_list(t4[i][1], get_size + 1, FALSE), TRUE)]
  IN <<_get_and_formula(part_1, TRUE)>> \o part_2 \o part_3 \o part_4

\* _generate_global_constraint_b(): the list of Part B conjuncts.
_generate_global_constraint_b ==
  LET t1 == Observed(alphabet1_to_alphabet_imply_table)
      t2 == Observed(alphabet_to_alphabet_imply_table)
      t3 == Observed(alphabet_to_snk_imply_table)
      part_1 == Flatten([i \in 1..Len(t1) |-> ImplyFormulas(
                  _get_alphabet_to_alphabet_imply_list(
                    t1[i][1][1], t1[i][1][2], t1[i][1][3], TRUE))])
      part_2 == Flatten([i \in 1..Len(t2) |-> ImplyFormulas(
                  _get_alphabet_to_alphabet_imply_list(
                    t2[i][1][1], t2[i][1][2], t2[i][1][3], FALSE))])
      part_3 == Flatten([i \in 1..Len(t3) |-> ImplyFormulas(
                  _get_alphabet_to_alphabet_imply_list(
                    t3[i][1][1], t3[i][1][2], get_size + 1, FALSE))])
  IN part_1 \o part_2 \o part_3

\* generate_global_constraint(): the expression it builds.
generate_global_constraint ==
  LET parts == _generate_global_constraint_a \o _generate_global_constraint_b
  IN IF Len(parts) = 0 THEN Var(0) ELSE And(parts)

\* ------------------------------------------- the constraint of one sentence

\* id_table[sentence[i]] for the Python index i (0-based).
Id(sentence, i) == id_table[sentence[i + 1]]

\* __gen_a_src()
__gen_a_src(sentence) == Var(_quadruple_to_idx(0, 0, Id(sentence, 0), 1))

\* __gen_a_src_1()
__gen_a_src_1(sentence) ==
  _get_or_formula([j \in 1..k[1] |->
    _quadruple_to_idx(Id(sentence, 0), 1, Id(sentence, 1), j)], TRUE)

\* __gen_a_common()
__gen_a_common(sentence) ==
  And([i \in 1..(Len(sentence) - 2) |->
    _get_or_formula(
      _get_alphabet_to_alphabet_list(Id(sentence, i), Id(sentence, i + 1), FALSE), TRUE)])

\* __gen_a_snk(); size is len(alphabet), not get_size().
__gen_a_snk(sentence) ==
  LET id1 == Id(sentence, Len(sentence) - 1)
      sz == Len(alphabet[1])
  IN IF Len(sentence) = 1 THEN Var(_quadruple_to_idx(id1, 1, sz + 1, 0))
     ELSE _get_or_formula([k1 \in 1..k[1] |-> _quadruple_to_idx(id1, k1, sz + 1, 0)], TRUE)

\* __gen_constraint_a_formula()
__gen_constraint_a_formula(sentence) ==
  And(<<__gen_a_src(sentence)>>
      \o (IF Len(sentence) > 1 THEN <<__gen_a_src_1(sentence)>> ELSE <<>>)
      \o (IF Len(sentence) > 2 THEN <<__gen_a_common(sentence)>> ELSE <<>>)
      \o <<__gen_a_snk(sentence)>>)

\* __gen_b_src()
__gen_b_src(sentence) ==
  LET id1 == Id(sentence, 0)
      id2 == Id(sentence, 1)
      id3 == Id(sentence, 2)
  IN And([j \in 1..k[1] |->
       Implies(Var(_quadruple_to_idx(id1, 1, id2, j)),
               _get_or_formula([j1 \in 1..k[1] |->
                 _quadruple_to_idx(id2, j, id3, j1)], TRUE))])

\* __gen_b_common()
__gen_b_common(sentence) ==
  LET result == Flatten([i \in 1..(Len(sentence) - 3) |-> ImplyFormulas(
                  _get_alphabet_to_alphabet_imply_list(
                    Id(sentence, i), Id(sentence, i + 1), Id(sentence, i + 2), FALSE))])
  IN IF Len(result) = 0 THEN Var(0) ELSE And(result)

\* __gen_b_snk(); size is len(alphabet), not get_size().
__gen_b_snk(sentence) ==
  LET slen == Len(sentence)
      id1 == Id(sentence, slen - 2)
      id2 == Id(sentence, slen - 1)
      sz == Len(alphabet[1])
      pre(j) == IF slen = 2 THEN Var(_quadruple_to_idx(id1, 1, id2, j))
                ELSE _get_or_formula([j1 \in 1..k[1] |->
                       _quadruple_to_idx(id1, j1, id2, j)], TRUE)
  IN And([j \in 1..k[1] |->
       Implies(pre(j), Var(_quadruple_to_idx(id2, j, sz + 1, 0)))])

\* __gen_constraint_b_formula()
__gen_constraint_b_formula(sentence) ==
  IF Len(sentence) <= 1 THEN Var(0)
  ELSE And((IF Len(sentence) > 2
              THEN <<__gen_b_src(sentence), __gen_b_common(sentence)>> ELSE <<>>)
           \o <<__gen_b_snk(sentence)>>)

\* Faulty variant of StandaloneFormula: the empty sentence gets the src->snk
\* edge variable as its Part a.
StandaloneFormula_SrcSnk(sentence) ==
  LET const_a == IF Len(sentence) = 0
                   THEN Var(_quadruple_to_idx(0, 0, get_size + 1, 0))
                 ELSE __gen_constraint_a_formula(sentence)
      const_b == IF k[1] <= 1 THEN Var(0)
                 ELSE __gen_constraint_b_formula(sentence)
  IN And(<<const_a, const_b>>)

\* Faulty variant of StandaloneFormula: the empty sentence gets the last
\* element of var_list, the constant false, as its Part a.
StandaloneFormula_LastSentinel(sentence) ==
  LET const_a == IF Len(sentence) = 0 THEN Var(-1)
                 ELSE __gen_constraint_a_formula(sentence)
      const_b == IF k[1] <= 1 THEN Var(0)
                 ELSE __gen_constraint_b_formula(sentence)
  IN And(<<const_a, const_b>>)

\* gen_sentence_constraint(ext=True): the expression it builds.
StandaloneFormula(sentence) ==
  LET const_a == IF Len(sentence) = 0 THEN Var(0)
                 ELSE __gen_constraint_a_formula(sentence)
      const_b == IF k[1] <= 1 THEN Var(0)
                 ELSE __gen_constraint_b_formula(sentence)
  IN And(<<const_a, const_b>>)

\* Faulty variant of Record: every occurrence adds an entry of its own.
Record_Append(table, key) == Append(table, <<key, 1>>)

\* count = table.setdefault(key, 0); table[key] += 1
Record(table, key) ==
  LET F(t) == IF \E i \in 1..Len(t) : t[i][1] = key
                THEN [i \in 1..Len(t) |->
                        IF t[i][1] = key THEN <<key, t[i][2] + 1>> ELSE t[i]]
                ELSE Append(t, <<key, 1>>)
  IN CHOOSE r \in {F(v) : v \in {table}} : TRUE

\* Record applied to the first n keys of a list, in order.
RECURSIVE RecordFirst(_, _, _)
RecordFirst(table, keys, n) ==
  IF n = 0 THEN table ELSE Record(RecordFirst(table, keys, n - 1), keys[n])

\* Record applied to each key of a list, in order.
RecordAll(table, keys) == LET F(ks) == RecordFirst(table, ks, Len(ks)) IN CHOOSE r \in {F(v) : v \in {keys}} : TRUE

\* The keys that _gen_sentence_constraint_a(ext=False) and
\* _gen_sentence_constraint_b(ext=False) record for a sentence whose symbols
\* have the ids `ids` (a sequence), table by table.
SrcKeys(ids) == IF Len(ids) > 0 THEN <<ids[1]>> ELSE <<>>
SnkKeys(ids) == IF Len(ids) > 0 THEN <<ids[Len(ids)]>> ELSE <<>>
FirstPairKeys(ids) == IF Len(ids) > 1 THEN << <<ids[1], ids[2]>> >> ELSE <<>>
\* Faulty variant of InteriorPairKeys: the loop starts at position 0, so the
\* first pair is recorded as an interior pair too.
InteriorPairKeys_FromZero(ids) ==
  IF Len(ids) > 2 THEN [i \in 1..(Len(ids) - 1) |-> <<ids[i], ids[i + 1]>>] ELSE <<>>
InteriorPairKeys(ids) ==
  IF Len(ids) > 2 THEN [i \in 1..(Len(ids) - 2) |-> <<ids[i + 1], ids[i + 2]>>] ELSE <<>>
\* Faulty variant of SnkImplyKeys: the pair is taken at the start of the
\* sentence instead of its end.
SnkImplyKeys_FirstPair(ids) ==
  IF Len(ids) > 1 THEN << <<ids[1], ids[2]>> >> ELSE <<>>
SnkImplyKeys(ids) ==
  IF Len(ids) > 1 THEN << <<ids[Len(ids) - 1], ids[Len(ids)]>> >> ELSE <<>>
FirstTripleKeys(ids) ==
  IF Len(ids) > 2 THEN << <<ids[1], ids[2], ids[3]>> >> ELSE <<>>
InteriorTripleKeys(ids) ==
  IF Len(ids) > 2
    THEN [i \in 1..(Len(ids) - 3) |-> <<ids[i + 1], ids[i + 2], ids[i + 3]>>]
    ELSE <<>>

\* The ids of the sentences of a list, each looked up in idt.
IdsOf(sentences, idt) ==
  [n \in 1..Len(sentences) |-> [i \in 1..Len(sentences[n]) |-> idt[sentences[n][i]]]]

\* The seven tables after gen_sentence_constraint(ext=False) has run on each
\* sentence of a list in order, the ids idss and k = kk being those in force.
\* Part b is skipped when k <= 1.
Aggregated(idss, kk) ==
  LET keysA(f(_)) == Flatten([n \in 1..Len(idss) |-> f(idss[n])])
      keysB(f(_)) == IF kk <= 1 THEN <<>> ELSE keysA(f)
  IN <<RecordAll(src_to_alphabet1_table, keysA(SrcKeys)),
       RecordAll(alphabet1_to_alphabet_table, keysA(FirstPairKeys)),
       RecordAll(alphabet_to_alphabet_table, keysA(InteriorPairKeys)),
       RecordAll(alphabet_to_snk_table, keysA(SnkKeys)),
       RecordAll(alphabet1_to_alphabet_imply_table, keysB(FirstTripleKeys)),
       RecordAll(alphabet_to_alphabet_imply_table, keysB(InteriorTripleKeys)),
       RecordAll(alphabet_to_snk_imply_table, keysB(SnkImplyKeys))>>

\* ------------------------------------------------------------------ actions

Init ==
  /\ alphabet = None
  /\ k = None
  /\ var_list = <<>>
  /\ id_table = [x \in {} |-> 0]
  /\ number = None
  /\ size = None
  /\ src_to_alphabet1_table = <<>>
  /\ alphabet1_to_alphabet_table = <<>>
  /\ alphabet_to_alphabet_table = <<>>
  /\ alphabet_to_snk_table = <<>>
  /\ alphabet1_to_alphabet_imply_table = <<>>
  /\ alphabet_to_alphabet_imply_table = <<>>
  /\ alphabet_to_snk_imply_table = <<>>
  /\ inits = 0
  /\ sen_pos = <<>>
  /\ call = <<"init">>
  /\ ret = NoReturn

\* The seven tables become those of the tuple t.
SetTables(t) ==
  /\ src_to_alphabet1_table' = t[1]
  /\ alphabet1_to_alphabet_table' = t[2]
  /\ alphabet_to_alphabet_table' = t[3]
  /\ alphabet_to_snk_table' = t[4]
  /\ alphabet1_to_alphabet_imply_table' = t[5]
  /\ alphabet_to_alphabet_imply_table' = t[6]
  /\ alphabet_to_snk_imply_table' = t[7]

\* Faulty variant of GlobalInit: the seven occurrence tables are emptied.
GlobalInit_ClearsTables(_alphabet, _k) ==
  /\ alphabet' = <<_alphabet>>
  /\ k' = <<_k>>
  /\ size' = IF size = None THEN <<Len(_alphabet)>> ELSE size
  /\ id_table' = gen_id_table(_alphabet, size'[1])
  /\ number' = IF number = None THEN <<_k * size'[1] + 1>> ELSE number
  /\ var_list' = gen_var_list(number'[1])
  /\ inits' = inits + 1
  /\ call' = <<"global_init", _alphabet, _k>>
  /\ ret' = NoReturn
  /\ SetTables([n \in 1..7 |-> <<>>])
  /\ UNCHANGED sen_pos

\* SentenceTranslator.global_init(_alphabet, _k): sets alphabet and k, then
\* gen_id_table() (whose get_size() fills __size if it is None) and
\* gen_var_list() (whose get_number() fills __number if it is None).
GlobalInit(_alphabet, _k) ==
  /\ alphabet' = <<_alphabet>>
  /\ k' = <<_k>>
  /\ size' = IF size = None THEN <<Len(_alphabet)>> ELSE size
  /\ id_table' = gen_id_table(_alphabet, size'[1])
  /\ number' = IF number = None THEN <<_k * size'[1] + 1>> ELSE number
  /\ var_list' = gen_var_list(number'[1])
  /\ inits' = inits + 1
  /\ call' = <<"global_init", _alphabet, _k>>
  /\ ret' = NoReturn
  /\ UNCHANGED <<tables, sen_pos>>

\* global_init, called at most MaxInits times in a run.
global_init(_alphabet, _k) == inits < MaxInits /\ GlobalInit(_alphabet, _k)

\* The addressing functions read the configuration and change nothing, so
\* what a call returns does not depend on the calls made before it. The model
\* therefore takes each call from a state global_init (or the start) left:
\* the states reached are the same as with calls chained after calls.
Configuring == call[1] \in {"init", "global_init"}

\* A call of _quadruple_to_idx(id1, k1, id2, k2). Before any global_init,
\* get_size() raises TypeError (len(None)).
Call_quadruple_to_idx(id1, k1, id2, k2) ==
  /\ Configuring
  /\ call' = <<"_quadruple_to_idx", id1, k1, id2, k2>>
  /\ ret' = IF alphabet = None THEN Raise("TypeError")
            ELSE <<"int", _quadruple_to_idx(id1, k1, id2, k2)>>
  /\ UNCHANGED <<config, tables, inits, sen_pos>>

\* A call of _idx_to_quadruple(idx). Before any global_init, get_number()
\* raises TypeError (None * int).
Call_idx_to_quadruple(idx) ==
  /\ Configuring
  /\ call' = <<"_idx_to_quadruple", idx>>
  /\ ret' = IF alphabet = None THEN Raise("TypeError") ELSE _idx_to_quadruple(idx)
  /\ UNCHANGED <<config, tables, inits, sen_pos>>

\* All sequences over a set, up to a length.
SeqsUpTo(S, n) == UNION {[1..m -> S] : m \in 0..n}

\* The sample strings: over the configured alphabet (before any global_init,
\* over the largest one), up to MaxLen symbols. A symbol that is not a key of
\* id_table is outside the engine's input domain.
Sentences ==
  SeqsUpTo(Range(IF alphabet = None THEN SubSeq(Letters, 1, MaxS) ELSE alphabet[1]), MaxLen)

\* Most negative samples handed to generate_fomula.
MaxNeg == 2
\* Longest sample string handed to generate_fomula.
MaxFomulaLen == 2

\* The sample strings handed to generate_fomula.
ShortSentences == {s \in Sentences : Len(s) <= MaxFomulaLen}

\* The formula-building operations read the class and change nothing, so what
\* a call returns does not depend on the formula-building calls before it. The
\* model takes each such call from a state that global_init or an aggregating
\* gen_sentence_constraint (or the start) left: the states reached are the
\* same (generate_fomula leaves the class as the aggregating calls it makes
\* leave it).
Settled ==
  \/ call[1] \in {"init", "global_init"}
  \/ call[1] = "gen_sentence_constraint" /\ ~call[3]

\* A call of gen_deterministic_formula(). Before any global_init, iterating
\* over the alphabet None raises TypeError.
Call_gen_deterministic_formula ==
  /\ Settled
  /\ call' = <<"gen_deterministic_formula">>
  /\ ret' = IF alphabet = None THEN Raise("TypeError")
            ELSE Returned(gen_deterministic_formula)
  /\ UNCHANGED <<config, tables, inits, sen_pos>>

\* A call of generate_global_constraint(). Before any global_init, var_list is
\* empty and var_list[0] raises IndexError.
Call_generate_global_constraint ==
  /\ Settled
  /\ call' = <<"generate_global_constraint">>
  /\ ret' = Returned(generate_global_constraint)
  /\ UNCHANGED <<config, tables, inits, sen_pos>>

\* SentenceTranslator(sentence).gen_sentence_constraint(ext). With ext the
\* standalone formula is returned and nothing changes; without it the tables
\* are updated and None is returned. Before any global_init, id_table is empty
\* and the first lookup raises KeyError (var_list[0] raises IndexError for the
\* empty sentence).
gen_sentence_constraint(sentence, ext) ==
  /\ call' = <<"gen_sentence_constraint", sentence, ext>>
  /\ IF alphabet = None
       THEN /\ Settled
            /\ ret' = IF Len(sentence) = 0 THEN IndexError ELSE Raise("KeyError")
            /\ UNCHANGED <<config, tables, inits, sen_pos>>
     ELSE IF ext
       THEN /\ Settled
            /\ ret' = Returned(StandaloneFormula(sentence))
            /\ UNCHANGED <<config, tables, inits, sen_pos>>
     ELSE /\ Len(sen_pos) < MaxSamples
          /\ SetTables(Aggregated(IdsOf(<<sentence>>, id_table), k[1]))
          /\ sen_pos' = Append(sen_pos, sentence)
          /\ ret' = NoReturn
          /\ UNCHANGED <<config, inits>>

\* ts_demo.generate_fomula(sen_pos, sen_neg): the deterministic formula, the
\* aggregation of every positive sample, the global constraint, the negated
\* standalone formula of every negative sample, and their conjunction. Its
\* only caller, step2, calls it right after global_init.
generate_fomula(pos, neg) ==
  /\ call[1] = "global_init"
  /\ Len(sen_pos) + Len(pos) <= MaxSamples
  /\ call' = <<"generate_fomula", pos, neg>>
  /\ UNCHANGED <<config, inits>>
  /\ \E d_formula \in {gen_deterministic_formula} :
     LET formula_neg_list ==
           <<BoolVal(TRUE)>> \o [i \in 1..Len(neg) |-> Not(StandaloneFormula(neg[i]))]
         formula_neg == And(formula_neg_list)
     IN IF Raised(d_formula)
          THEN ret' = IndexError /\ UNCHANGED <<tables, sen_pos>>
          ELSE /\ SetTables(Aggregated(IdsOf(pos, id_table), k[1]))
               /\ sen_pos' = sen_pos \o pos
               /\ ret' = Returned(And(<<d_formula, generate_global_constraint', formula_neg>>))

\* The arguments the addressing functions are called with: every id and slot
\* of the largest configuration, and one or two values beyond each end.
ArgIds == -1..(MaxS + 2)
ArgSlots == -1..(MaxK + 1)
ArgIdxs == 0..((MaxK * MaxS + 1) * (MaxK * MaxS + 1) + 1)

\* The addressing functions alone, under every configuration.
NextIdx ==
  \/ \E a \in Alphabets, kk \in Ks : global_init(a, kk)
  \/ \E id1 \in ArgIds, k1 \in ArgSlots, id2 \in ArgIds, k2 \in ArgSlots :
       Call_quadruple_to_idx(id1, k1, id2, k2)
  \/ \E idx \in ArgIdxs : Call_idx_to_quadruple(idx)

SpecIdx == Init /\ [][NextIdx]_vars

\* The encoding engine and its driver.
Next ==
  \/ \E a \in Alphabets, kk \in Ks : global_init(a, kk)
  \/ Call_gen_deterministic_formula
  \/ \E s \in Sentences : gen_sentence_constraint(s, TRUE)
  \/ \E s \in Sentences : gen_sentence_constraint(s, FALSE)
  \/ Call_generate_global_constraint
  \/ /\ call[1] = "global_init"
     /\ \E pos \in SeqsUpTo(ShortSentences, MaxSamples),
           neg \in SeqsUpTo(ShortSentences, MaxNeg) :
          generate_fomula(pos, neg)

Spec == Init /\ [][Next]_vars

\* Most calls of global_init in a run that re-initialises the class.
MaxReInits == 2
\* Longest sample string in such a run.
MaxReLen == 3

\* global_init, called at most MaxReInits times in a run.
global_init_again(_alphabet, _k) == inits < MaxReInits /\ GlobalInit(_alphabet, _k)

\* The sample strings of a run that re-initialises the class.
ReSentences == {s \in Sentences : Len(s) <= MaxReLen}

\* The engine with global_init called again in mid-run: the tables, the id
\* table, the variable list and the cached size and number live in the class
\* and outlast the call.
NextRe ==
  \/ \E a \in Alphabets, kk \in Ks : global_init_again(a, kk)
  \/ Call_gen_deterministic_formula
  \/ \E s \in ShortSentences : gen_sentence_constraint(s, TRUE)
  \/ \E s \in ReSentences : gen_sentence_constraint(s, FALSE)
  \/ Call_generate_global_constraint

SpecRe == Init /\ [][NextRe]_vars

\* ------------------------------------------------- claims on the addressing

\* One global_init, with a non-empty alphabet and k >= 1.
ConfiguredOnce == inits = 1 /\ Len(alphabet[1]) >= 1 /\ k[1] >= 1

Interior(id1, k1, id2, k2) ==
  /\ id1 \in 1..get_size /\ id2 \in 1..get_size
  /\ k1 \in 1..k[1] /\ k2 \in 1..k[1]

\* The valid tuples: src->symbol, interior, symbol->snk and src->snk.
ValidTuples ==
  {<<0, 0, id2, k2>> : id2 \in 1..get_size, k2 \in 1..k[1]}
  \cup {<<id1, k1, id2, k2>> : id1 \in 1..get_size, k1 \in 1..k[1],
                                id2 \in 1..get_size, k2 \in 1..k[1]}
  \cup {<<id1, k1, get_size + 1, 0>> : id1 \in 1..get_size, k1 \in 1..k[1]}
  \cup {<<0, 0, get_size + 1, 0>>}

ValidImage == {_quadruple_to_idx(t[1], t[2], t[3], t[4]) : t \in ValidTuples}

\* C6: under one configuration with S >= 1 and k >= 1, the index returned by
\* _quadruple_to_idx for an interior tuple decodes, by _idx_to_quadruple, to
\* that tuple.
C6_RoundTrip ==
  (/\ ConfiguredOnce
   /\ call[1] = "_quadruple_to_idx"
   /\ Interior(call[2], call[3], call[4], call[5]))
  => _idx_to_quadruple(ret[2]) = <<"tuple", call[2], call[3], call[4], call[5]>>

\* An interior tuple with slots and ids above 1 has been encoded.
C6_Witness ==
  /\ ConfiguredOnce
  /\ call = <<"_quadruple_to_idx", 2, 2, 1, 2>>
  /\ ret[1] = "int"

\* C7: under one configuration with S >= 1 and k >= 1, _quadruple_to_idx is
\* injective on the valid tuples, its image is exactly 1..N*N (N = k*S+1), and
\* var_list has N*N+2 elements with the constants true and false at its two
\* ends, so no valid tuple is mapped to either constant.
C7_Bijection ==
  (ConfiguredOnce /\ call[1] = "global_init")
  => LET N == k[1] * Len(alphabet[1]) + 1
     IN /\ Cardinality(ValidImage) = Cardinality(ValidTuples)
        /\ ValidImage = 1..(N * N)
        /\ Len(var_list) = N * N + 2
        /\ Var(0) = BoolVal(TRUE)
        /\ Var(N * N + 1) = BoolVal(FALSE)
        /\ \A i \in ValidImage : Var(i) = Bool(i)

\* A configuration with two symbols and two slots has been established.
C7_Witness ==
  /\ ConfiguredOnce /\ call[1] = "global_init"
  /\ Len(alphabet[1]) = 2 /\ k[1] = 2
  /\ Cardinality(ValidTuples) = 25

\* The src->snk tuple has been encoded under one configuration.
SrcSnkCalled ==
  /\ ConfiguredOnce
  /\ call = <<"_quadruple_to_idx", 0, 0, get_size + 1, 0>>

\* C8 as stated: the index returned for the src->snk tuple is the one returned
\* for it under every other configuration (S >= 1, k >= 1).
C8_Original ==
  SrcSnkCalled
  => \A a \in Alphabets, kk \in Ks :
       (Len(a) >= 1 /\ kk >= 1)
       => ret[2] = QuadrupleToIdx(Len(a), kk, kk * Len(a) + 1, 0, 0, Len(a) + 1, 0)

\* C8 (amended): the index returned for the src->snk tuple is N = k*S+1, the
\* value of get_number() for the configuration, so it varies with S and k.
C8_Amended ==
  SrcSnkCalled => ret = <<"int", k[1] * Len(alphabet[1]) + 1>>

\* The src->snk tuple has been encoded under the largest configuration.
C8_Witness ==
  SrcSnkCalled /\ Len(alphabet[1]) = 2 /\ k[1] = 2 /\ ret = <<"int", 5>>

\* An id outside 0..S+1, or a slot outside 1..k for a symbol id.
InvalidArgs(id1, k1, id2, k2) ==
  \/ id1 \notin 0..(get_size + 1)
  \/ id2 \notin 0..(get_size + 1)
  \/ id1 \in 1..get_size /\ k1 \notin 1..k[1]
  \/ id2 \in 1..get_size /\ k2 \notin 1..k[1]

\* C9 as stated: a call of _quadruple_to_idx with an invalid id or slot raises;
\* it returns no integer, and so none that is the index of a valid tuple.
C9_Original ==
  (/\ ConfiguredOnce
   /\ call[1] = "_quadruple_to_idx"
   /\ InvalidArgs(call[2], call[3], call[4], call[5]))
  => (ret[1] = "raise" /\ ~(ret[1] = "int" /\ ret[2] \in ValidImage))

\* --------------------------------------------------- claims on the formulas

\* Most edge variables that an assignment makes true.
MaxTrue == 4

\* The subsets of S with at most n elements.
RECURSIVE SubsetsUpTo(_, _)
SubsetsUpTo(S, n) ==
  IF n = 0 THEN {{}}
  ELSE UNION {{T} \cup {T \cup {x} : x \in S} : T \in SubsetsUpTo(S, n - 1)}

\* The assignments to the variables V, each given as the set of the variables
\* it makes true: all of them when V has at most MaxTrue elements, otherwise
\* those that make at most MaxTrue variables true. A formula's value depends
\* only on the variables it mentions.
Assignments(V) == SubsetsUpTo(V, MaxTrue)

\* Two formulas have the same value under every assignment.
Equivalent(f, g) ==
  \A m \in Assignments(Vars(f) \cup Vars(g)) : Eval(f, m) = Eval(g, m)

\* The conjunction of the standalone formulas of the samples aggregated so far.
StandaloneConjunction == And([i \in 1..Len(sen_pos) |-> StandaloneFormula(sen_pos[i])])

\* C1 as stated: the formula generate_global_constraint() returns after the
\* samples sen_pos have been aggregated from empty tables has the same
\* satisfying assignments as the conjunction of their standalone formulas.
C1_Original ==
  (ConfiguredOnce /\ call[1] = "generate_global_constraint")
  => Equivalent(ret, StandaloneConjunction)

\* Every sample aggregated is non-empty and no key was recorded twice.
NoRepeats ==
  /\ \A i \in 1..Len(sen_pos) : Len(sen_pos[i]) >= 1
  /\ \A n \in 1..7 : \A i \in 1..Len(tables[n]) : tables[n][i][2] = 1

\* C2 as stated: for S <= 2, k <= 2 and samples without a repeated edge or
\* triple, the conjunction of the samples' standalone Part a formulas has the
\* same satisfying assignments as the conjunction of the Part A conjuncts.
C2_Original ==
  (/\ ConfiguredOnce /\ Len(alphabet[1]) <= 2 /\ k[1] <= 2
   /\ call[1] = "gen_sentence_constraint" /\ ~call[3]
   /\ NoRepeats)
  => Equivalent(And([i \in 1..Len(sen_pos) |-> __gen_constraint_a_formula(sen_pos[i])]),
                And(_generate_global_constraint_a))

\* The automaton that assignment m encodes has an accepting path for the
\* sentence: src -> (c1, j1), (ci, ji) -> (ci+1, ji+1), (cn, jn) -> snk, all
\* edge variables true.
Accepts(m, sentence) ==
  LET n == Len(sentence)
      snk == Len(alphabet[1]) + 1
  IN \E slot \in [1..n -> 1..k[1]] :
       /\ _quadruple_to_idx(0, 0, Id(sentence, 0), slot[1]) \in m
       /\ \A i \in 1..(n - 1) :
            _quadruple_to_idx(Id(sentence, i - 1), slot[i], Id(sentence, i), slot[i + 1]) \in m
       /\ _quadruple_to_idx(Id(sentence, n - 1), slot[n], snk, 0) \in m

\* generate_fomula has run for alphabet {a,b}, k = 2, positive samples
\* ["a", "ab"] and negative sample ["b"].
C3_Scenario ==
  /\ ConfiguredOnce /\ alphabet = << <<"a", "b">> >> /\ k = <<2>>
  /\ call = <<"generate_fomula", << <<"a">>, <<"a", "b">> >>, << <<"b">> >> >>

\* C3 as stated: in that scenario the formula is satisfiable, and under every
\* satisfying assignment "a" and "ab" have an accepting path and "b" has none.
C3_Original ==
  C3_Scenario
  => /\ \E m \in Assignments(Vars(ret)) : Eval(ret, m)
     /\ \A m \in Assignments(Vars(ret)) :
          Eval(ret, m) => /\ Accepts(m, <<"a">>)
                          /\ Accepts(m, <<"a", "b">>)
                          /\ ~Accepts(m, <<"b">>)

\* generate_fomula has run for alphabet {a}, k = 1, positive sample ["a"] and
\* negative sample ["a"].
C4_Scenario ==
  /\ ConfiguredOnce /\ alphabet = << <<"a">> >> /\ k = <<1>>
  /\ call = <<"generate_fomula", << <<"a">> >>, << <<"a">> >> >>

\* C4: alphabet {a}, k = 1, positive sample ["a"], negative sample ["a"]: the
\* formula generate_fomula returns is false under every assignment to its
\* variables.
C4_Unsat ==
  C4_Scenario
  => /\ ret[1] = "and"
     /\ \A m \in SUBSET Vars(ret) : ~Eval(ret, m)

\* That formula has been built; it mentions the src->a and a->snk variables.
C4_Witness == C4_Scenario /\ ret[1] = "and" /\ Vars(ret) = {1, 4}

\* The keys with a count > 0, table by table.
ObservedKeys ==
  [n \in 1..7 |-> {tables[n][i][1] : i \in {j \in 1..Len(tables[n]) : tables[n][j][2] > 0}}]

\* C5: under one configuration, aggregating a sample that has been aggregated
\* before leaves the set of keys with a count > 0 of each of the seven tables,
\* and the formula generate_global_constraint() builds, as they were.
C5_Idempotent ==
  [][(/\ inits = 1
      /\ call'[1] = "gen_sentence_constraint"
      /\ sen_pos' # sen_pos
      /\ call'[2] \in Range(sen_pos))
     => (/\ ObservedKeys' = ObservedKeys
         /\ generate_global_constraint' = generate_global_constraint)]_vars

\* A sample of four symbols, which reaches all seven tables when k = 2, has
\* been aggregated twice.
C5_Witness ==
  /\ ConfiguredOnce /\ k[1] = 2
  /\ call[1] = "gen_sentence_constraint" /\ ~call[3]
  /\ Len(sen_pos) = 2 /\ sen_pos[1] = sen_pos[2] /\ Len(sen_pos[1]) = 4
  /\ \A n \in 1..7 : Len(tables[n]) >= 1 /\ tables[n][1][2] >= 2

\* C10 as stated: global_init with k < 1 raises and establishes nothing: no
\* alphabet, no k, no variable list; and no formula is built afterwards.
C10_Original ==
  /\ (call[1] = "global_init" /\ call[3] < 1)
     => (ret[1] = "raise" /\ alphabet = None /\ k = None /\ var_list = <<>>)
  /\ (/\ k # None /\ k[1] < 1
      /\ call[1] \in {"gen_deterministic_formula", "generate_global_constraint",
                      "gen_sentence_constraint", "generate_fomula"})
     => ret[1] = "raise"

\* The edge variables an automaton of the configuration has besides those
\* into snk: src -> (c, j) and (c1, k1) -> (c2, m).
DetVars ==
  {_quadruple_to_idx(0, 0, c, j) : c \in 1..get_size, j \in 1..k[1]}
  \cup {_quadruple_to_idx(c1, k1, c2, m) :
          c1 \in 1..get_size, k1 \in 1..k[1], c2 \in 1..get_size, m \in 1..k[1]}

\* Assignment m is canonical and deterministic: (i) for every symbol c the
\* edge src -> (c, 1) is true or no edge src -> (c, j) is; (ii) for every
\* (c1, k1) and c2 at most one edge (c1, k1) -> (c2, m) is true.
Deterministic(m) ==
  /\ \A c \in 1..get_size :
       \/ _quadruple_to_idx(0, 0, c, 1) \in m
       \/ \A j \in 1..k[1] : _quadruple_to_idx(0, 0, c, j) \notin m
  /\ \A c1 \in 1..get_size, k1 \in 1..k[1], c2 \in 1..get_size :
       Cardinality({j \in 1..k[1] : _quadruple_to_idx(c1, k1, c2, j) \in m}) <= 1

\* C11: for k >= 2, an assignment satisfies the formula that
\* gen_deterministic_formula() returned exactly when it is canonical and
\* deterministic in the sense (i) and (ii). The formula is built from the
\* configuration alone, so it is examined, under every assignment, where no
\* sample has been aggregated yet.
C11_Deterministic ==
  (/\ inits = 1 /\ k[1] >= 2
   /\ call[1] = "gen_deterministic_formula" /\ sen_pos = <<>>)
  => /\ ret[1] = "and"
     /\ Vars(ret) \subseteq DetVars
     /\ \A m \in SUBSET DetVars : Eval(ret, m) = Deterministic(m)

\* The deterministic formula of two symbols with two slots each has been
\* built: 2 canonicalization clauses and 8 clauses on 20 variables.
C11_Witness ==
  /\ inits = 1 /\ k[1] = 2 /\ Len(alphabet[1]) = 2
  /\ call[1] = "gen_deterministic_formula" /\ sen_pos = <<>>
  /\ ret[1] = "and" /\ Len(ret[2]) = 10 /\ Cardinality(Vars(ret)) = 20

\* gen_sentence_constraint() has run on the empty sentence, k >= 1.
C12_Scenario ==
  /\ inits = 1 /\ k[1] >= 1
  /\ call = <<"gen_sentence_constraint", <<>>, TRUE>>

\* C12: for k >= 1 the formula gen_sentence_constraint() returns for the empty
\* sentence is the conjunction of two constants true: it mentions no edge
\* variable, so its value is the same, true, under every assignment.
C12_EmptyTrue ==
  C12_Scenario
  => /\ ret = And(<<BoolVal(TRUE), BoolVal(TRUE)>>)
     /\ Vars(ret) = {}
     /\ \A m \in SUBSET Vars(ret) : Eval(ret, m)

\* The empty sentence has been translated with two slots per symbol, where
\* Part b is built by __gen_constraint_b_formula.
C12_Witness ==
  C12_Scenario /\ k[1] = 2 /\ Len(alphabet[1]) = 2 /\ ret[1] = "and"

\* ---------------------------------------------------- claims on the tables

\* The keys of an occurrence table, and those with a count > 0.
KeysOf(table) == {table[i][1] : i \in 1..Len(table)}
PresentIn(table) == {table[i][1] : i \in {j \in 1..Len(table) : table[j][2] > 0}}

\* The count of a key in an occurrence table, 0 when the key is absent.
CountOf(table, key) ==
  IF key \in KeysOf(table)
    THEN (CHOOSE e \in Range(table) : e[1] = key)[2]
    ELSE 0

\* This step is gen_sentence_constraint(ext=False) aggregating call'[2] under
\* an established configuration.
Aggregates ==
  /\ alphabet # None
  /\ call'[1] = "gen_sentence_constraint"
  /\ sen_pos' = Append(sen_pos, call'[2])

\* The id of the symbol at (0-based) position i of the sample being aggregated.
SId(i) == id_table[call'[2][i + 1]]

\* The keys the sample being aggregated has for the three transitivity tables,
\* by position.
PairBeforeSnk ==
  LET n == Len(call'[2]) IN IF n > 1 THEN {<<SId(n - 2), SId(n - 1)>>} ELSE {}
FirstTriple ==
  LET n == Len(call'[2]) IN IF n > 2 THEN {<<SId(0), SId(1), SId(2)>>} ELSE {}
InteriorTriples ==
  LET n == Len(call'[2]) IN {<<SId(i), SId(i + 1), SId(i + 2)>> : i \in 1..(n - 3)}

\* After the step the three transitivity tables hold the sample's keys, each
\* with a count > 0, and no other new key.
TransitivityRecorded ==
  /\ KeysOf(alphabet_to_snk_imply_table') =
       KeysOf(alphabet_to_snk_imply_table) \cup PairBeforeSnk
  /\ PairBeforeSnk \subseteq PresentIn(alphabet_to_snk_imply_table')
  /\ KeysOf(alphabet1_to_alphabet_imply_table') =
       KeysOf(alphabet1_to_alphabet_imply_table) \cup FirstTriple
  /\ FirstTriple \subseteq PresentIn(alphabet1_to_alphabet_imply_table')
  /\ KeysOf(alphabet_to_alphabet_imply_table') =
       KeysOf(alphabet_to_alphabet_imply_table) \cup InteriorTriples
  /\ InteriorTriples \subseteq PresentIn(alphabet_to_alphabet_imply_table')

\* C13 as stated: for every k >= 1, k = 1 included, aggregating a sample
\* records its pair before snk, its first triple and its interior triples in
\* the three transitivity tables, and adds no other key to them.
C13_Original ==
  [][(Aggregates /\ k[1] >= 1) => TransitivityRecorded]_vars

\* C13 (amended): for k >= 2 aggregating a sample records its pair before snk,
\* its first triple and its interior triples in the three transitivity tables
\* and adds no other key to them; for k = 1 the three tables are left as they
\* were.
C13_Amended ==
  [][/\ (Aggregates /\ k[1] >= 2) => TransitivityRecorded
     /\ (Aggregates /\ k[1] = 1)
        => UNCHANGED <<alphabet1_to_alphabet_imply_table,
                       alphabet_to_alphabet_imply_table,
                       alphabet_to_snk_imply_table>>]_vars

\* A sample of four symbols, not all alike, has been aggregated with two slots
\* per symbol: each transitivity table has received a key.
C13_Witness ==
  /\ inits = 1 /\ k[1] = 2
  /\ call[1] = "gen_sentence_constraint" /\ ~call[3]
  /\ sen_pos = <<call[2]>> /\ call[2] = <<"a", "b", "b", "a">>
  /\ alphabet_to_snk_imply_table = << <<<<2, 1>>, 1>> >>
  /\ alphabet1_to_alphabet_imply_table = << <<<<1, 2, 2>>, 1>> >>
  /\ alphabet_to_alphabet_imply_table = << <<<<2, 2, 1>>, 1>> >>

\* The ids a table key is made of.
KeyIds == 1..MaxS

\* 1 if the condition holds, else 0.
OneIf(b) == IF b THEN 1 ELSE 0

\* After the step the counts of the four edge tables have grown by what the
\* sample being aggregated, of length n >= 1, contributes by position, and by
\* nothing else.
EdgesCounted ==
  LET s == call'[2]
      n == Len(s)
  IN /\ \A x \in KeyIds :
          /\ CountOf(src_to_alphabet1_table', x) =
               CountOf(src_to_alphabet1_table, x) + OneIf(x = SId(0))
          /\ CountOf(alphabet_to_snk_table', x) =
               CountOf(alphabet_to_snk_table, x) + OneIf(x = SId(n - 1))
     /\ \A x \in KeyIds, y \in KeyIds :
          /\ CountOf(alphabet1_to_alphabet_table', <<x, y>>) =
               CountOf(alphabet1_to_alphabet_table, <<x, y>>)
               + OneIf(n > 1 /\ <<x, y>> = <<SId(0), SId(IF n > 1 THEN 1 ELSE 0)>>)
          /\ CountOf(alphabet_to_alphabet_table', <<x, y>>) =
               CountOf(alphabet_to_alphabet_table, <<x, y>>)
               + Cardinality({i \in 1..(n - 2) : <<SId(i), SId(i + 1)>> = <<x, y>>})
     /\ KeysOf(src_to_alphabet1_table') \subseteq KeyIds
     /\ KeysOf(alphabet_to_snk_table') \subseteq KeyIds
     /\ KeysOf(alphabet1_to_alphabet_table') \subseteq KeyIds \X KeyIds
     /\ KeysOf(alphabet_to_alphabet_table') \subseteq KeyIds \X KeyIds

\* C14: aggregating a sample of length n >= 1 raises the count of its first
\* symbol in the src->first table and of its last symbol in the last->snk
\* table by 1, the count of its first pair in the first->second table by 1
\* when n > 1, and the count of each pair in the interior table by the number
\* of positions 1..n-2 where the pair occurs; no other count of these four
\* tables changes, and a sample of length 0 changes none of the seven tables.
C14_Counts ==
  [][Aggregates
     => /\ Len(call'[2]) >= 1 => EdgesCounted
        /\ Len(call'[2]) = 0 => UNCHANGED tables]_vars

\* A sample whose interior pair (b, b) occurs at positions 1 and 2, and whose
\* first pair (a, b) occurs at position 0 only, has been aggregated.
C14_Witness ==
  /\ inits = 1
  /\ call = <<"gen_sentence_constraint", <<"a", "b", "b", "b">>, FALSE>>
  /\ sen_pos = <<call[2]>>
  /\ src_to_alphabet1_table = << <<1, 1>> >>
  /\ alphabet_to_snk_table = << <<2, 1>> >>
  /\ alphabet1_to_alphabet_table = << <<<<1, 2>>, 1>> >>
  /\ alphabet_to_alphabet_table = << <<<<2, 2>>, 2>> >>

\* ------------------------------------------------------ claims on Part B

\* Formula f is a disjunction of exactly the variables V (V not empty).
DisjunctionOf(f, V) ==
  /\ Vars(f) = V
  /\ \A m \in SUBSET V : Eval(f, m) = (m # {})

\* Formula f is the implication from the disjunction of the variables pre to
\* the disjunction of the variables post.
ImplicationFrom(f, pre, post) ==
  /\ f[1] = "implies"
  /\ DisjunctionOf(f[2], pre)
  /\ DisjunctionOf(f[3], post)

\* The antecedent variables C15 names for the pair (id1, id2) and the middle
\* slot k2: the canonical-slot edge alone when the alphabet has two symbols,
\* the edges from every slot of id1 otherwise.
SnkImplyPre(id1, id2, k2) ==
  IF Len(alphabet[1]) = 2
    THEN {_quadruple_to_idx(id1, 1, id2, k2)}
    ELSE {_quadruple_to_idx(id1, k1, id2, k2) : k1 \in 1..k[1]}

C16_Frame ==
  [][/\ \A n \in 1..7 : \A key \in KeysOf(tables[n]) :
          /\ key \in KeysOf(tables'[n])
          /\ CountOf(tables'[n], key) >= CountOf(tables[n], key)
     /\ tables' # tables => (call'[1] = "gen_sentence_constraint" /\ ~call'[3])
     /\ (\/ call'[1] \in {"global_init", "gen_deterministic_formula",
                          "generate_global_constraint"}
         \/ call'[1] = "gen_sentence_constraint" /\ call'[3])
        => UNCHANGED tables]_vars

\* global_init has been called a second time after a sample of three symbols
\* was aggregated with two slots per symbol, and the tables still hold its
\* keys.
C16_Witness ==
  /\ inits = 2 /\ call[1] = "global_init"
  /\ Len(sen_pos) = 1 /\ Len(sen_pos[1]) = 3
  /\ \A n \in {1, 2, 3, 4, 5, 7} : Len(tables[n]) = 1

\* ------------------------------------------------ claims on the empty string

\* The last call returned a formula.
FormulaReturned == ret[1] \in {"const", "var", "not", "and", "or", "implies"}

\* Formula f is false under every assignment to its variables.
Unsatisfiable(f) == \A m \in SUBSET Vars(f) : ~Eval(f, m)

\* C17: under one configuration with k >= 1, (a) the src->snk edge variable,
\* of index N = k*S+1, occurs in no formula an operation returns; (b)
\* aggregating the empty sample changes no table and leaves the formula
\* generate_global_constraint() builds as it was; (c) when the negative samples
\* handed to generate_fomula include the empty string, the formula returned is
\* a conjunction with a conjunct that is false under every assignment, so it
\* has no satisfying assignment.
C17_EmptyString ==
  [][(inits' = 1 /\ k'[1] >= 1)
     => /\ FormulaReturned' => (k'[1] * Len(alphabet'[1]) + 1) \notin Vars(ret')
        /\ (call' = <<"gen_sentence_constraint", <<>>, FALSE>> /\ sen_pos' # sen_pos)
           => /\ UNCHANGED tables
              /\ generate_global_constraint' = generate_global_constraint
        /\ (call'[1] = "generate_fomula" /\ <<>> \in Range(call'[3]))
           => /\ ret'[1] = "and"
              /\ \E i \in 1..Len(ret'[2]) : Unsatisfiable(ret'[2][i])]_vars

\* generate_fomula has run with two symbols, two slots, a positive sample and
\* the empty string among the negative samples.
C17_Witness ==
  /\ inits = 1 /\ k[1] = 2 /\ Len(alphabet[1]) = 2
  /\ call[1] = "generate_fomula"
  /\ call[2] = << <<"a", "b">> >>
  /\ <<>> \in Range(call[3])
  /\ ret[1] = "and" /\ Cardinality(Vars(ret)) >= 20

====
